---- MODULE Spec2Model ----
(***************************************************************************)
(* Model of ddagent.py: the Transaction queue (class Transaction), its     *)
(* chained asynchronous delivery, the intake handler (AgentInputHandler)   *)
(* and the supervisor of the check process (Application.run_checks and     *)
(* process_check).  Everything runs on the single tornado IOLoop, so every *)
(* handler / callback is one atomic action.                                *)
(*                                                                         *)
(* Time (datetime.now()) is the variable clock, in microseconds since the  *)
(* start of the run, so that replace(microsecond=0) is observable.         *)
(***************************************************************************)
EXTENDS Integers, Sequences, FiniteSets, TLC

----------------------------------------------------------------------------
(* Bounds of the model *)

MaxId == 3              \* transactions created in one run
SubSecond == 500000     \* the sub-second amount (microseconds) the clock may be seen to advance
MaxSeconds == 41        \* horizon of the clock, in seconds
MaxFail == 5            \* SpecBackoff: failures a transaction starts with
MaxLate == 10           \* SpecBackoff: sub-second steps by which its resend is late
MaxPid == 3             \* SpecChecks: child processes launched in one run

(* Program constants *)

OneSecond == 1000000    \* microseconds in a second (datetime resolution)
RetryStep == 20         \* seconds of delay per error (compute_next_flush)
RetryCap == 60          \* ceiling of the delay, seconds (compute_next_flush)
NoPid == -1             \* Application._check_pid when no child is tracked

----------------------------------------------------------------------------
(* Transaction._trs_to_flush is None or a list *)

None == [set |-> FALSE, list |-> <<>>]
Some(l) == [set |-> TRUE, list |-> l]

(* Python values produced by json_decode, as far as the handler tells them apart *)
PyNone == "None"
PyEmptyDict == "{}"

(* Raw messages a client may post *)
Messages == {"{}", "null", "{"}

(* hashlib.md5(message).hexdigest() on the messages above *)
md5hex(message) ==
    CASE message = "{}"   -> "99914b932bd37a50b983c5e7c90ae93b"
      [] message = "null" -> "37a6259cc0c1dae299a7866489dff0bd"
      [] message = "{"    -> "f95b70fdc3088560732a5ac135644506"

(* Integrity tokens a client may send: the digest of some message *)
Hashes == {md5hex(m) : m \in Messages}

(* tornado.escape.json_decode: the decoded value, or an exception on
   malformed input *)
json_decode(message) ==
    CASE message = "{}"   -> [raised |-> FALSE, value |-> PyEmptyDict]
      [] message = "null" -> [raised |-> FALSE, value |-> PyNone]
      [] OTHER            -> [raised |-> TRUE,  value |-> PyNone]

(* parse_message without the comparison of the digests *)
parse_message_unchecked(message, msg_hash) == json_decode(message)

(* AgentInputHandler.parse_message *)
parse_message(message, msg_hash) ==
    IF md5hex(message) # msg_hash
    THEN [raised |-> FALSE, value |-> PyNone]
    ELSE json_decode(message)

----------------------------------------------------------------------------
VARIABLES
    clock,          \* datetime.now(), in microseconds
    counter,        \* Transaction._counter
    transactions,   \* Transaction._transactions: list of ids of live transactions
    data,           \* tr._data, by id
    error_count,    \* tr._error_count, by id
    next_flush,     \* tr._next_flush, by id (microseconds)
    trs_to_flush,   \* Transaction._trs_to_flush
    inflight,       \* fetches issued and not yet completed, in order of issue
    delivered,      \* history: ids on which finish() has run
    chain,          \* history: snapshot and sends of the current / last flush chain
    last,           \* history: what the last handler did
    check_pid,      \* Application._check_pid
    procs,          \* the children of the process, by pid
    lastc           \* history: what the last supervisor callback did

queue_vars == <<clock, counter, transactions, data, error_count, next_flush,
                trs_to_flush, inflight, delivered, chain, last>>

check_vars == <<check_pid, procs, lastc>>

vars == <<clock, counter, transactions, data, error_count, next_flush,
          trs_to_flush, inflight, delivered, chain, last,
          check_pid, procs, lastc>>

Ids == 1..MaxId

Min(a, b) == IF a < b THEN a ELSE b

SeqToSet(s) == {s[i] : i \in 1..Len(s)}

----------------------------------------------------------------------------
(* time_to_flush ignoring _next_flush *)
time_to_flush_always(nf, now) == TRUE

(* Transaction.time_to_flush *)
time_to_flush(nf, now) == nf < now

(* the timedelta without its ceiling *)
Delay_uncapped(ec) == ec * RetryStep

(* The timedelta of compute_next_flush, in seconds *)
Delay(ec) ==
    LET td == ec * RetryStep
    IN  IF td > RetryCap THEN RetryCap ELSE td

(* datetime.replace(microsecond=0) *)
replace_microsecond_0(t) == (t \div OneSecond) * OneSecond

(* Transaction.compute_next_flush: the new _next_flush *)
compute_next_flush(ec, now) ==
    replace_microsecond_0(now + Delay(ec) * OneSecond)

(* _flush_next taking the oldest transaction (pop(0)) *)
flush_next_oldest(cur, infl, fmtOk) ==
    IF ~cur.set
    THEN [cur |-> cur, infl |-> infl, sent |-> 0, raised |-> TRUE,
          failed |-> 0]
    ELSE IF Len(cur.list) > 0
    THEN LET tr == cur.list[1]
             rest == Some(SubSeq(cur.list, 2, Len(cur.list)))
         IN  IF fmtOk
             THEN [cur |-> rest, infl |-> Append(infl, tr), sent |-> tr,
                   raised |-> FALSE, failed |-> 0]
             ELSE [cur |-> rest, infl |-> infl, sent |-> 0, raised |-> TRUE,
                   failed |-> tr]
    ELSE [cur |-> None, infl |-> infl, sent |-> 0, raised |-> FALSE,
          failed |-> 0]

(* _flush_next resetting the cursor as soon as it pops the last element *)
flush_next_early_reset(cur, infl, fmtOk) ==
    IF ~cur.set
    THEN [cur |-> cur, infl |-> infl, sent |-> 0, raised |-> TRUE,
          failed |-> 0]
    ELSE IF Len(cur.list) > 0
    THEN LET tr == cur.list[Len(cur.list)]
             rest == IF Len(cur.list) = 1
                     THEN None
                     ELSE Some(SubSeq(cur.list, 1, Len(cur.list) - 1))
         IN  IF fmtOk
             THEN [cur |-> rest, infl |-> Append(infl, tr), sent |-> tr,
                   raised |-> FALSE, failed |-> 0]
             ELSE [cur |-> rest, infl |-> infl, sent |-> 0, raised |-> TRUE,
                   failed |-> tr]
    ELSE [cur |-> None, infl |-> infl, sent |-> 0, raised |-> FALSE,
          failed |-> 0]

(* Transaction._flush_next.  fmtOk: format_body returns; otherwise get_data's
   except clause runs logger.error with logger undefined and the NameError
   leaves _flush_next after the pop. *)
flush_next(cur, infl, fmtOk) ==
    IF ~cur.set
    THEN [cur |-> cur, infl |-> infl, sent |-> 0, raised |-> TRUE,
          failed |-> 0]
    ELSE IF Len(cur.list) > 0
    THEN LET tr == cur.list[Len(cur.list)]
             rest == Some(SubSeq(cur.list, 1, Len(cur.list) - 1))
         IN  IF fmtOk
             THEN [cur |-> rest, infl |-> Append(infl, tr), sent |-> tr,
                   raised |-> FALSE, failed |-> 0]
             ELSE [cur |-> rest, infl |-> infl, sent |-> 0, raised |-> TRUE,
                   failed |-> tr]
    ELSE [cur |-> None, infl |-> infl, sent |-> 0, raised |-> FALSE,
          failed |-> 0]

(* flush without the test of lines 64-66 *)
flush_unguarded(trs, nf, cur, infl, now, fmtOk) ==
    LET to_flush == SelectSeq(trs, LAMBDA t : nf[t] < now)
    IN  IF Len(to_flush) > 0
        THEN LET r == flush_next(Some(to_flush), infl, fmtOk)
             IN  [cur |-> r.cur, infl |-> r.infl, sent |-> r.sent,
                  raised |-> r.raised, failed |-> r.failed, began |-> TRUE,
                  scanned |-> TRUE, sel |-> to_flush]
        ELSE [cur |-> cur, infl |-> infl, sent |-> 0, raised |-> FALSE,
              failed |-> 0, began |-> FALSE, scanned |-> TRUE, sel |-> <<>>]

(* flush starting a chain although one is draining, when something is due *)
flush_reentrant(trs, nf, cur, infl, now, fmtOk) ==
    LET to_flush == SelectSeq(trs, LAMBDA t : nf[t] < now)
    IN  IF cur.set /\ Len(to_flush) = 0
        THEN [cur |-> cur, infl |-> infl, sent |-> 0, raised |-> FALSE,
              failed |-> 0, began |-> FALSE, scanned |-> FALSE, sel |-> <<>>]
        ELSE flush_unguarded(trs, nf, cur, infl, now, fmtOk)

(* Transaction.flush *)
flush(trs, nf, cur, infl, now, fmtOk) ==
    IF cur.set
    THEN [cur |-> cur, infl |-> infl, sent |-> 0, raised |-> FALSE,
          failed |-> 0, began |-> FALSE, scanned |-> FALSE, sel |-> <<>>]
    ELSE LET to_flush == SelectSeq(trs, LAMBDA t : time_to_flush(nf[t], now))
         IN  IF Len(to_flush) > 0
             THEN LET r == flush_next(Some(to_flush), infl, fmtOk)
                  IN  [cur |-> r.cur, infl |-> r.infl, sent |-> r.sent,
                       raised |-> r.raised, failed |-> r.failed,
                       began |-> TRUE, scanned |-> TRUE, sel |-> to_flush]
             ELSE [cur |-> cur, infl |-> infl, sent |-> 0, raised |-> FALSE,
                   failed |-> 0, began |-> FALSE, scanned |-> TRUE, sel |-> <<>>]

(* list.remove: drops the first occurrence *)
list_remove(s, x) ==
    LET i == CHOOSE k \in 1..Len(s) : s[k] = x /\ \A j \in 1..(k-1) : s[j] # x
    IN  SubSeq(s, 1, i - 1) \o SubSeq(s, i + 1, Len(s))

(* finish leaving the transaction in the list *)
finish_keeps(trs, tr) == trs

(* Transaction.finish *)
finish(trs, tr) == list_remove(trs, tr)

(* error counting a failure twice *)
error_twice(ec) == ec + 2

(* Transaction.error: the new _error_count *)
error(ec) == ec + 1

----------------------------------------------------------------------------
(* The check process supervisor *)

Pids == 1..MaxPid

(* Wait statuses of a child: exit(0), exit(1), killed by signal 9 *)
ExitStatuses == {0, 256, 9}

NoProcs == [p \in Pids |-> [state |-> "unborn", status |-> 0]]

Alive(ps) == {p \in Pids : ps[p].state = "running"}

(* subprocess.Popen(args): the pid of the new child, or an exception.  The
   operating system hands out a pid that no child of the process holds. *)
Popen(ps, launchOk) ==
    IF launchOk /\ \E p \in Pids : ps[p].state = "unborn"
    THEN LET pid == CHOOSE p \in Pids :
                       /\ ps[p].state = "unborn"
                       /\ \A q \in Pids : ps[q].state = "unborn" => p <= q
         IN  [raised |-> FALSE, pid |-> pid,
              procs |-> [ps EXCEPT ![pid] = [state |-> "running", status |-> 0]]]
    ELSE [raised |-> TRUE, pid |-> NoPid, procs |-> ps]

(* os.waitpid(pid, os.WNOHANG): (0, 0) while the child runs; (pid, status) of
   a child that has exited, which is reaped; OSError when pid is no child that
   can be waited for. *)
waitpid(ps, pid) ==
    IF pid \in Pids /\ ps[pid].state = "running"
    THEN [raised |-> FALSE, pid |-> 0, status |-> 0, procs |-> ps]
    ELSE IF pid \in Pids /\ ps[pid].state = "exited"
    THEN [raised |-> FALSE, pid |-> pid, status |-> ps[pid].status,
          procs |-> [ps EXCEPT ![pid].state = "reaped"]]
    ELSE [raised |-> TRUE, pid |-> 0, status |-> 0, procs |-> ps]

(* run_checks without the test of lines 191-193 *)
run_checks_unguarded(pid, ps, firstRun, launchOk) ==
    LET r == Popen(ps, launchOk)
    IN  IF r.raised
        THEN [check_pid |-> pid, procs |-> ps, ret |-> FALSE,
              launched |-> NoPid, firstRun |-> firstRun, popen |-> "raised"]
        ELSE [check_pid |-> r.pid, procs |-> r.procs, ret |-> TRUE,
              launched |-> r.pid, firstRun |-> firstRun, popen |-> "ok"]

(* Application.run_checks *)
run_checks(pid, ps, firstRun, launchOk) ==
    IF pid > 0
    THEN [check_pid |-> pid, procs |-> ps, ret |-> FALSE, launched |-> NoPid,
          firstRun |-> firstRun, popen |-> "none"]
    ELSE LET r == Popen(ps, launchOk)
         IN  IF r.raised
             THEN [check_pid |-> pid, procs |-> ps, ret |-> FALSE,
                   launched |-> NoPid, firstRun |-> firstRun,
                   popen |-> "raised"]
             ELSE [check_pid |-> r.pid, procs |-> r.procs, ret |-> TRUE,
                   launched |-> r.pid, firstRun |-> firstRun, popen |-> "ok"]

(* process_check clearing the handle only after a non-zero status *)
process_check_keeps_clean_exit(pid, ps) ==
    IF pid > 0
    THEN LET w == waitpid(ps, pid)
         IN  IF w.raised
             THEN [check_pid |-> pid, procs |-> ps, outcome |-> "raised",
                   logged_error |-> FALSE]
             ELSE IF w.status # 0
             THEN [check_pid |-> NoPid, procs |-> w.procs,
                   outcome |-> "exited", logged_error |-> TRUE]
             ELSE [check_pid |-> pid, procs |-> w.procs,
                   outcome |-> "running", logged_error |-> FALSE]
    ELSE [check_pid |-> pid, procs |-> ps, outcome |-> "idle",
          logged_error |-> FALSE]

(* Application.process_check *)
process_check(pid, ps) ==
    IF pid > 0
    THEN LET w == waitpid(ps, pid)
         IN  IF w.raised
             THEN [check_pid |-> pid, procs |-> ps, outcome |-> "raised",
                   logged_error |-> FALSE]
             ELSE IF <<w.pid, w.status>> # <<0, 0>>
             THEN [check_pid |-> NoPid, procs |-> w.procs,
                   outcome |-> "exited", logged_error |-> w.status # 0]
             ELSE [check_pid |-> pid, procs |-> w.procs,
                   outcome |-> "running", logged_error |-> FALSE]
    ELSE [check_pid |-> pid, procs |-> ps, outcome |-> "idle",
          logged_error |-> FALSE]

NoCheckOp == [op |-> "init", ret |-> FALSE, launched |-> NoPid,
              firstRun |-> FALSE, outcome |-> "", logged_error |-> FALSE,
              pid |-> NoPid, popen |-> "none"]

(* Application.__init__: _check_pid = -1, then run_checks(True) *)
ChecksAfterInit(launchOk) ==
    LET r == run_checks(NoPid, NoProcs, TRUE, launchOk)
    IN  /\ check_pid = r.check_pid
        /\ procs = r.procs
        /\ lastc = [NoCheckOp EXCEPT !.op = "run_checks", !.ret = r.ret,
                                     !.launched = r.launched,
                                     !.firstRun = r.firstRun,
                                     !.popen = r.popen]

----------------------------------------------------------------------------
NoOp == [op |-> "init", tr |-> 0, sent |-> 0, at |-> 0, sel |-> <<>>,
         scanned |-> FALSE, began |-> FALSE, raised |-> FALSE, td |-> 0,
         status |-> 0, message |-> "", msg_hash |-> "", called |-> FALSE,
         failed |-> 0]

NoChain == [snap |-> <<>>, log |-> <<>>]

(* The chain history after a flush / _flush_next result r *)
ChainAfterFlush(r) ==
    IF r.began
    THEN [snap |-> r.sel, log |-> IF r.sent # 0 THEN <<r.sent>> ELSE <<>>]
    ELSE chain

InitQueue ==
    /\ clock = 0
    /\ counter = 0
    /\ transactions = <<>>
    /\ data = [i \in Ids |-> PyNone]
    /\ error_count = [i \in Ids |-> 0]
    /\ next_flush = [i \in Ids |-> 0]
    /\ trs_to_flush = None
    /\ inflight = <<>>
    /\ delivered = {}
    /\ chain = NoChain
    /\ last = NoOp

(* The state after construction, the first check run launched *)
Init == InitQueue /\ ChecksAfterInit(TRUE)

(* May the clock be observed dt later?  Sub-second steps are taken from whole
   seconds only, which keeps the clock on few values. *)
ClockMay(dt) ==
    /\ clock + dt <= MaxSeconds * OneSecond
    /\ dt < OneSecond => clock % OneSecond = 0

(* Time passes between two handlers *)
Advance(dt) ==
    /\ dt > 0
    /\ ClockMay(dt)
    /\ clock' = clock + dt
    /\ last' = [NoOp EXCEPT !.op = "advance"]
    /\ UNCHANGED <<counter, transactions, data, error_count, next_flush,
                   trs_to_flush, inflight, delivered, chain>>
    /\ UNCHANGED check_vars

(* AgentInputHandler.post.  parse_message returning None raises HTTPError(500);
   an exception of json_decode, or of flush(), leaves the handler and tornado
   answers 500.  Otherwise Transaction(msg), then Transaction.flush().
   d: time between the datetime.now() of __init__ and that of flush. *)
post(message, msg_hash, d, fmtOk) ==
    LET msg == parse_message(message, msg_hash)
        id  == counter + 1
        trs == Append(transactions, id)
        nf  == [next_flush EXCEPT ![id] = clock]
        r   == flush(trs, nf, trs_to_flush, inflight, clock + d, fmtOk)
    IN  IF msg.raised \/ msg.value = PyNone
        THEN /\ last' = [NoOp EXCEPT !.op = "post", !.status = 500,
                                    !.message = message, !.msg_hash = msg_hash]
             /\ UNCHANGED <<clock, counter, transactions, data, error_count,
                            next_flush, trs_to_flush, inflight, delivered, chain>>
             /\ UNCHANGED check_vars
        ELSE /\ counter < MaxId
             /\ d = 0 \/ ClockMay(d)
             /\ counter' = id
             /\ data' = [data EXCEPT ![id] = msg.value]
             /\ error_count' = [error_count EXCEPT ![id] = 0]
             /\ next_flush' = nf
             /\ transactions' = trs
             /\ clock' = clock + d
             /\ trs_to_flush' = r.cur
             /\ inflight' = r.infl
             /\ chain' = ChainAfterFlush(r)
             /\ last' = [op |-> "post", tr |-> id, sent |-> r.sent,
                         at |-> clock + d, sel |-> r.sel, scanned |-> r.scanned,
                         began |-> r.began, raised |-> r.raised, td |-> 0,
                         status |-> IF r.raised THEN 500 ELSE 200,
                         message |-> message, msg_hash |-> msg_hash,
                         called |-> TRUE, failed |-> r.failed]
             /\ UNCHANGED delivered
             /\ UNCHANGED check_vars

(* flush_trs: the periodic callback calling Transaction.flush() *)
flush_trs(fmtOk) ==
    LET r == flush(transactions, next_flush, trs_to_flush, inflight, clock, fmtOk)
    IN  /\ trs_to_flush' = r.cur
        /\ inflight' = r.infl
        /\ chain' = ChainAfterFlush(r)
        /\ last' = [op |-> "flush", tr |-> 0, sent |-> r.sent, at |-> clock,
                    sel |-> r.sel, scanned |-> r.scanned, began |-> r.began,
                    raised |-> r.raised, td |-> 0, status |-> 0,
                    message |-> "", msg_hash |-> "", called |-> TRUE,
                    failed |-> r.failed]
        /\ UNCHANGED <<clock, counter, transactions, data, error_count,
                       next_flush, delivered>>
        /\ UNCHANGED check_vars

DropAt(s, i) == SubSeq(s, 1, i - 1) \o SubSeq(s, i + 1, Len(s))

(* Transaction.on_response with response.error set, for the i-th outstanding
   fetch: tr.error(), then _flush_next *)
ResponseError(i, fmtOk) ==
    /\ i \in 1..Len(inflight)
    /\ LET tr == inflight[i]
           ec == error(error_count[tr])
           r  == flush_next(trs_to_flush, DropAt(inflight, i), fmtOk)
       IN  /\ error_count' = [error_count EXCEPT ![tr] = ec]
           /\ next_flush' = [next_flush EXCEPT ![tr] = compute_next_flush(ec, clock)]
           /\ trs_to_flush' = r.cur
           /\ inflight' = r.infl
           /\ chain' = IF r.sent # 0
                       THEN [chain EXCEPT !.log = Append(@, r.sent)]
                       ELSE chain
           /\ last' = [op |-> "error", tr |-> tr, sent |-> r.sent, at |-> clock,
                       sel |-> <<>>, scanned |-> FALSE, began |-> FALSE,
                       raised |-> r.raised, td |-> Delay(ec), status |-> 0,
                       message |-> "", msg_hash |-> "", called |-> FALSE,
                       failed |-> r.failed]
    /\ UNCHANGED <<clock, counter, transactions, data, delivered>>
    /\ UNCHANGED check_vars

(* Transaction.on_response without error: tr.finish(), then _flush_next.
   list.remove raises ValueError when tr is not in the list, and on_response
   then ends before _flush_next. *)
ResponseOk(i, fmtOk) ==
    /\ i \in 1..Len(inflight)
    /\ LET tr == inflight[i]
           present == tr \in SeqToSet(transactions)
           r  == IF present
                 THEN flush_next(trs_to_flush, DropAt(inflight, i), fmtOk)
                 ELSE [cur |-> trs_to_flush, infl |-> DropAt(inflight, i),
                       sent |-> 0, raised |-> TRUE, failed |-> 0]
       IN  /\ transactions' = IF present THEN finish(transactions, tr)
                              ELSE transactions
           /\ delivered' = delivered \cup {tr}
           /\ trs_to_flush' = r.cur
           /\ inflight' = r.infl
           /\ chain' = IF r.sent # 0
                       THEN [chain EXCEPT !.log = Append(@, r.sent)]
                       ELSE chain
           /\ last' = [op |-> "finish", tr |-> tr, sent |-> r.sent, at |-> clock,
                       sel |-> <<>>, scanned |-> FALSE, began |-> FALSE,
                       raised |-> r.raised, td |-> 0, status |-> 0,
                       message |-> "", msg_hash |-> "", called |-> FALSE,
                       failed |-> r.failed]
    /\ UNCHANGED <<clock, counter, data, error_count, next_flush>>
    /\ UNCHANGED check_vars

Next ==
    \/ \E dt \in {SubSecond, RetryStep * OneSecond} : Advance(dt)
    \/ \E m \in Messages, h \in Hashes, d \in {0, SubSecond}, f \in BOOLEAN :
           post(m, h, d, f)
    \/ \E f \in BOOLEAN : flush_trs(f)
    \/ \E i \in 1..MaxId, f \in BOOLEAN : ResponseError(i, f)
    \/ \E i \in 1..MaxId, f \in BOOLEAN : ResponseOk(i, f)

Spec == Init /\ [][Next]_vars

(* The IOLoop keeps running its callbacks: the periodic flush_trs is called
   again and again, and every fetch completes, with or without an error. *)
Response == \E i \in 1..MaxId, f \in BOOLEAN :
                ResponseError(i, f) \/ ResponseOk(i, f)

FlushTick == \E f \in BOOLEAN : flush_trs(f)

SpecLive == Init /\ [][Next]_vars /\ WF_vars(Response) /\ WF_vars(FlushTick)

----------------------------------------------------------------------------
(* The supervisor's callbacks and its child, the queue left alone *)

(* main: run_checks, the periodic callback calling app.run_checks() *)
RunChecks(launchOk) ==
    LET r == run_checks(check_pid, procs, FALSE, launchOk)
    IN  /\ check_pid > 0 \/ ~launchOk \/ \E p \in Pids : procs[p].state = "unborn"
        /\ check_pid' = r.check_pid
        /\ procs' = r.procs
        /\ lastc' = [NoCheckOp EXCEPT !.op = "run_checks", !.ret = r.ret,
                                      !.launched = r.launched,
                                      !.firstRun = r.firstRun,
                                      !.popen = r.popen,
                                      !.pid = check_pid]
        /\ UNCHANGED queue_vars

(* main: process_check, the periodic callback calling app.process_check() *)
ProcessCheck ==
    LET r == process_check(check_pid, procs)
    IN  /\ check_pid' = r.check_pid
        /\ procs' = r.procs
        /\ lastc' = [NoCheckOp EXCEPT !.op = "process_check",
                                      !.outcome = r.outcome,
                                      !.logged_error = r.logged_error,
                                      !.pid = check_pid]
        /\ UNCHANGED queue_vars

(* A running child ends with wait status st *)
ChildExit(p, st) ==
    /\ procs[p].state = "running"
    /\ procs' = [procs EXCEPT ![p] = [state |-> "exited", status |-> st]]
    /\ lastc' = [NoCheckOp EXCEPT !.op = "child_exit", !.pid = p]
    /\ UNCHANGED check_pid
    /\ UNCHANGED queue_vars

InitChecks == InitQueue /\ \E launchOk \in BOOLEAN : ChecksAfterInit(launchOk)

NextChecks ==
    \/ \E launchOk \in BOOLEAN : RunChecks(launchOk)
    \/ ProcessCheck
    \/ \E p \in Pids, st \in ExitStatuses : ChildExit(p, st)

SpecChecks == InitChecks /\ [][NextChecks]_vars

----------------------------------------------------------------------------
(* The backoff on its inputs: transaction 1 has failed f times, each failure
   less than a second after it became due, and its next send, issued by a
   periodic flush j sub-second steps after it became due again, is
   outstanding. *)

RECURSIVE SumDelay(_)
SumDelay(f) == IF f = 0 THEN 0 ELSE Delay(f) + SumDelay(f - 1)

InitBackoff ==
    \E f \in 0..MaxFail, j \in 1..MaxLate :
        /\ clock = SumDelay(f) * OneSecond + j * SubSecond
        /\ counter = 1
        /\ transactions = <<1>>
        /\ data = [i \in Ids |-> IF i = 1 THEN PyEmptyDict ELSE PyNone]
        /\ error_count = [i \in Ids |-> IF i = 1 THEN f ELSE 0]
        /\ next_flush = [i \in Ids |-> IF i = 1 THEN SumDelay(f) * OneSecond ELSE 0]
        /\ trs_to_flush = Some(<<>>)
        /\ inflight = <<1>>
        /\ delivered = {}
        /\ chain = [snap |-> <<1>>, log |-> <<1>>]
        /\ last = [NoOp EXCEPT !.op = "flush", !.sent = 1, !.at = clock,
                               !.sel = <<1>>, !.scanned = TRUE, !.began = TRUE,
                               !.called = TRUE]
        /\ ChecksAfterInit(TRUE)

NextBackoff == \E i \in 1..MaxId, f \in BOOLEAN : ResponseError(i, f)

SpecBackoff == InitBackoff /\ [][NextBackoff]_vars

----------------------------------------------------------------------------
Live == SeqToSet(transactions)

Reverse(s) == [i \in 1..Len(s) |-> s[Len(s) + 1 - i]]

IsPrefix(s, t) == Len(s) <= Len(t) /\ s = SubSeq(t, 1, Len(s))

----------------------------------------------------------------------------
\* C1: at most one network send is outstanding at any instant, and a step
\* issues a send only if it is a flush (periodic or from the intake handler)
\* that found the flush cursor absent and nothing outstanding, or the
\* completion callback of the previous send of the same chain.
C1_OneSendOutstanding ==
    /\ [](Len(inflight) <= 1)
    /\ [][last'.sent # 0 =>
            \/ /\ last'.op \in {"flush", "post"}
               /\ ~trs_to_flush.set
               /\ inflight = <<>>
               /\ inflight' = <<last'.sent>>
            \/ /\ last'.op \in {"error", "finish"}
               /\ trs_to_flush.set
               /\ inflight = <<last'.tr>>
               /\ chain.log # <<>>
               /\ chain.log[Len(chain.log)] = last'.tr
               /\ chain'.snap = chain.snap
               /\ chain'.log = Append(chain.log, last'.sent)
               /\ inflight' = <<last'.sent>>]_vars

\* A completion callback has issued the second send of a chain.
C1_Witness ==
    /\ last.op \in {"error", "finish"}
    /\ last.sent # 0
    /\ inflight = <<last.sent>>
    /\ Len(chain.log) >= 2

\* C2: a flush requested while the flush cursor is non-absent, by the periodic
\* tick or by the intake handler after it created its transaction, changes
\* neither the cursor, nor the live collection, nor any transaction's error
\* count or next flush time, nor the outstanding sends, and issues no send.
C2_FlushWhileDrainingIsNoOp ==
    [][/\ (last'.op = "flush" /\ trs_to_flush.set) =>
            /\ UNCHANGED <<trs_to_flush, transactions, error_count, next_flush,
                           inflight, chain, counter, delivered>>
            /\ last'.sent = 0
       /\ (last'.op = "post" /\ last'.tr # 0 /\ trs_to_flush.set) =>
            /\ UNCHANGED <<trs_to_flush, inflight, chain, delivered>>
            /\ transactions' = Append(transactions, last'.tr)
            /\ \A t \in Live : /\ error_count'[t] = error_count[t]
                                /\ next_flush'[t] = next_flush[t]
            /\ last'.sent = 0]_vars

\* The periodic flush ran while a send was outstanding and another live
\* transaction, not part of the draining chain, was due.
C2_Witness ==
    /\ last.op = "flush"
    /\ trs_to_flush.set
    /\ Len(inflight) = 1
    /\ \E t \in Live :
           /\ next_flush[t] < clock
           /\ t \notin SeqToSet(chain.snap)

\* C3: the live collection holds, without duplicates and in insertion order
\* (ascending id), exactly the transactions created and not yet successfully
\* delivered; a delivered transaction is neither outstanding, nor waiting in
\* the flush cursor, nor sent by any later step.
C3_LiveCollection ==
    /\ \A i, j \in 1..Len(transactions) :
           i < j => transactions[i] < transactions[j]
    /\ Live = (1..counter) \ delivered
    /\ \A t \in delivered :
           /\ t \notin SeqToSet(inflight)
           /\ t \notin SeqToSet(trs_to_flush.list)
           /\ last.sent # t

\* The middle one of three transactions has been delivered, the others are live.
C3_Witness ==
    /\ delivered = {2}
    /\ transactions = <<1, 3>>
    /\ last.op = "finish"

(* BackoffPolicy.delay of the specification, in seconds *)
SpecDelay(f) == Min(f * RetryStep, RetryCap)

\* C4 as stated: a failed delivery of tr leaves tr live, adds exactly 1 to its
\* error count, sets its next flush time to the time of the failure plus
\* delay(new error count), and changes no other transaction.
C4_FailureReschedulesExactly ==
    [][last'.op = "error" =>
          LET tr == last'.tr
          IN  /\ tr \in SeqToSet(transactions')
              /\ transactions' = transactions
              /\ error_count'[tr] = error_count[tr] + 1
              /\ next_flush'[tr] =
                     clock' + SpecDelay(error_count'[tr]) * OneSecond
              /\ \A t \in Ids \ {tr} : /\ error_count'[t] = error_count[t]
                                       /\ next_flush'[t] = next_flush[t]]_vars

\* C4 amended: as above, but the next flush time is the time of the failure
\* plus delay(new error count), rounded down to a whole second.
C4_FailureReschedulesToWholeSecond ==
    [][last'.op = "error" =>
          LET tr == last'.tr
              due == clock' + SpecDelay(error_count'[tr]) * OneSecond
          IN  /\ tr \in SeqToSet(transactions')
              /\ transactions' = transactions
              /\ error_count'[tr] = error_count[tr] + 1
              /\ next_flush'[tr] = due - (due % OneSecond)
              /\ \A t \in Ids \ {tr} : /\ error_count'[t] = error_count[t]
                                       /\ next_flush'[t] = next_flush[t]]_vars

\* A second failure of a transaction, at a time that is not a whole second,
\* with another transaction live.
C4_Witness ==
    /\ last.op = "error"
    /\ last.at % OneSecond # 0
    /\ error_count[last.tr] = 2
    /\ last.tr \in Live
    /\ Len(transactions) >= 2

\* C5: a flush that scans the live collection selects no transaction whose
\* next flush time is later than the time the flush read, sends only a
\* selected transaction, and selects nothing when every live transaction's
\* next flush time is still ahead.
C5_NeverSelectsEarly ==
    (last.op \in {"flush", "post"} /\ last.scanned) =>
        /\ \A t \in SeqToSet(last.sel) : t \in Live /\ next_flush[t] <= last.at
        /\ last.sent # 0 => last.sent \in SeqToSet(last.sel)
        /\ (\A t \in Live : next_flush[t] > last.at) =>
               /\ last.sel = <<>>
               /\ last.sent = 0
               /\ ~trs_to_flush.set

\* The only live transaction has failed once; a flush between the failure and
\* its next flush time selected nothing.
C5_Witness ==
    /\ last.op = "flush"
    /\ last.scanned
    /\ Len(transactions) = 1
    /\ error_count[transactions[1]] = 1
    /\ last.at > next_flush[transactions[1]] - RetryStep * OneSecond
    /\ last.at < next_flush[transactions[1]]
    /\ last.sel = <<>>
    /\ inflight = <<>>

\* C6 as stated: a flush that starts with the cursor absent selects every live
\* transaction whose next flush time is at or before the time the flush read,
\* one whose next flush time equals that time included.
C6_SelectsEveryDue ==
    (last.op \in {"flush", "post"} /\ last.scanned) =>
        \A t \in Live : next_flush[t] <= last.at => t \in SeqToSet(last.sel)

\* C7: the sends of a flush chain follow the chain's snapshot newest first:
\* the snapshot is in insertion order, the sends so far are a prefix of the
\* reversed snapshot, a send is issued only when no other is outstanding,
\* what is still to send is the rest of the snapshot, and a chain that has
\* drained has sent its whole snapshot in that order.
C7_NewestFirst ==
    /\ \A i, j \in 1..Len(chain.snap) : i < j => chain.snap[i] < chain.snap[j]
    /\ IsPrefix(chain.log, Reverse(chain.snap))
    /\ last.sent # 0 => inflight = <<last.sent>>
    /\ inflight # <<>> =>
           /\ trs_to_flush.set
           /\ chain.snap = trs_to_flush.list \o Reverse(chain.log)
    /\ ~trs_to_flush.set => chain.log = Reverse(chain.snap)

\* Three transactions enqueued in order 1, 2, 3 were all due when the flush
\* started; 3 failed, 2 succeeded, and the send of 1 has just been issued.
C7_Witness ==
    /\ chain.snap = <<1, 2, 3>>
    /\ chain.log = <<3, 2, 1>>
    /\ error_count[3] = 1
    /\ 2 \in delivered
    /\ inflight = <<1>>

\* C9: an intake request whose token differs from the digest of the raw
\* message, or whose raw message does not decode, is answered 500 and changes
\* nothing: no transaction is created, the counter, the live collection, the
\* flush cursor and the outstanding sends stay as they are, and flush() is not
\* called.
C9_RejectedChangesNothing ==
    [][(/\ last'.op = "post"
        /\ \/ md5hex(last'.message) # last'.msg_hash
           \/ json_decode(last'.message).raised) =>
          /\ last'.status = 500
          /\ last'.tr = 0
          /\ ~last'.called
          /\ last'.sent = 0
          /\ UNCHANGED <<counter, transactions, data, error_count, next_flush,
                         trs_to_flush, inflight, delivered, chain>>]_vars

\* A decodable message arrived with the digest of another message while
\* transactions were live and a send was outstanding.
C9_Witness ==
    /\ last.op = "post"
    /\ last.message = "{}"
    /\ last.msg_hash # md5hex("{}")
    /\ last.status = 500
    /\ Len(transactions) >= 2
    /\ Len(inflight) = 1

\* C10 as stated: every intake request whose token equals the digest of the
\* raw message and whose raw message decodes (to any value, null included)
\* creates exactly one transaction at the tail of the live collection and
\* then calls flush().
C10_EveryValidPostEnqueues ==
    [][(/\ last'.op = "post"
        /\ md5hex(last'.message) = last'.msg_hash
        /\ ~json_decode(last'.message).raised) =>
          /\ counter' = counter + 1
          /\ transactions' = Append(transactions, counter')
          /\ last'.tr = counter'
          /\ last'.called]_vars

\* C8: the delay applied after a failure that brings the error count to f is
\* min(f*20, 60) seconds, and as a function of f >= 0 the delay is 0, 20, 40
\* for f = 0, 1, 2 and 60 from f = 3 on, never above 60 and never decreasing.
C8_BackoffDelay ==
    /\ last.op = "error" =>
           LET f == error_count[last.tr]
               due == last.at + Min(f * 20, 60) * OneSecond
           IN  /\ last.td = Min(f * 20, 60)
               /\ next_flush[last.tr] = due - (due % OneSecond)
    /\ \A f \in 0..(MaxFail + 1) :
           /\ Delay(f) = CASE f = 0 -> 0
                           [] f = 1 -> 20
                           [] f = 2 -> 40
                           [] OTHER -> 60
           /\ Delay(f) <= 60
           /\ Delay(f) <= Delay(f + 1)

\* The fifth failure of a transaction: 5 * 20 seconds is above the ceiling.
C8_Witness ==
    /\ last.op = "error"
    /\ error_count[last.tr] = 5
    /\ last.td = 60
    /\ next_flush[last.tr] > clock

\* C11 as stated: an intake request whose token equals the digest of the raw
\* message, whose raw message decodes and whose transaction has been created
\* is answered with a success status, whatever the flush it triggers does:
\* nothing (a chain is draining), a send, or a failed serialisation of a
\* transaction's body.
C11_ValidPostAnswered200 ==
    (/\ last.op = "post"
     /\ md5hex(last.message) = last.msg_hash
     /\ ~json_decode(last.message).raised
     /\ last.tr # 0) =>
        last.status = 200

\* C12: at most one child check process is alive at any time, and a
\* run_checks call made while the tracked child is alive returns False,
\* launches nothing and leaves the handle as it was.
C12_OneChildAlive ==
    /\ [](Cardinality(Alive(procs)) <= 1)
    /\ [](Alive(procs) # {} => Alive(procs) = {check_pid})
    /\ [][(lastc'.op = "run_checks" /\ Alive(procs) # {}) =>
            /\ ~lastc'.ret
            /\ lastc'.launched = NoPid
            /\ UNCHANGED <<check_pid, procs>>]_vars

\* The periodic run_checks came while the second child was running.
C12_Witness ==
    /\ lastc.op = "run_checks"
    /\ ~lastc.ret
    /\ check_pid = 2
    /\ procs[2].state = "running"
    /\ procs[1].state = "reaped"

\* C13 as stated: run_checks refuses only while a previously launched child
\* is alive; when none is alive and Popen does not fail, it launches a child,
\* records its pid in the handle and returns True.
C13_RefusedOnlyWhileAlive ==
    [][lastc'.op = "run_checks" =>
          /\ lastc'.popen = "none" => Alive(procs) # {}
          /\ (Alive(procs) = {} /\ lastc'.popen # "raised") =>
                 /\ lastc'.ret
                 /\ lastc'.launched \in Pids
                 /\ check_pid' = lastc'.launched
                 /\ procs'[check_pid'].state = "running"]_vars

\* C14: process_check does one of four things and does not wait: with no
\* tracked child, nothing; with the tracked child running, nothing; with the
\* tracked child exited with status 0, it clears the handle and logs no
\* error; with the tracked child exited with another status, it clears the
\* handle and logs an error.  It touches no other child.
C14_PollOutcomes ==
    [][lastc'.op = "process_check" =>
          /\ lastc'.outcome \in {"idle", "running", "exited"}
          /\ check_pid <= 0 =>
                 /\ lastc'.outcome = "idle"
                 /\ ~lastc'.logged_error
                 /\ UNCHANGED <<check_pid, procs>>
          /\ (check_pid > 0 /\ procs[check_pid].state = "running") =>
                 /\ lastc'.outcome = "running"
                 /\ ~lastc'.logged_error
                 /\ UNCHANGED <<check_pid, procs>>
          /\ (check_pid > 0 /\ procs[check_pid].state = "exited") =>
                 /\ lastc'.outcome = "exited"
                 /\ check_pid' = NoPid
                 /\ lastc'.logged_error <=> procs[check_pid].status # 0
                 /\ procs' = [procs EXCEPT ![check_pid].state = "reaped"]]_vars

\* process_check found the second child exited with status 0 and cleared the
\* handle without an error; the first child had been killed by a signal.
C14_Witness ==
    /\ lastc.op = "process_check"
    /\ lastc.outcome = "exited"
    /\ lastc.pid = 2
    /\ ~lastc.logged_error
    /\ check_pid = NoPid
    /\ procs[2] = [state |-> "reaped", status |-> 0]
    /\ procs[1] = [state |-> "reaped", status |-> 9]

\* C15 as stated: when the body formatter fails on transaction tr in
\* _flush_next, tr is handled as a failed delivery: it stays live, its error
\* count grows by 1, its next flush time is rescheduled, and the chain goes
\* on: the next target is sent or, the list exhausted, the cursor is reset.
C15_FormatFailureIsDeliveryFailure ==
    [][last'.failed # 0 =>
          LET tr == last'.failed
          IN  /\ tr \in SeqToSet(transactions')
              /\ error_count'[tr] = error_count[tr] + 1
              /\ next_flush'[tr] =
                     compute_next_flush(error_count'[tr], clock')
              /\ \/ inflight' # <<>>
                 \/ ~trs_to_flush'.set]_vars

\* C16 as stated: once the flush cursor is non-absent, and every issued send
\* completing, the cursor is eventually reset to absent.
C16_ChainTerminates == trs_to_flush.set ~> ~trs_to_flush.set

\* C17 as stated, its retry part: a transaction leaves the live collection
\* only by finish(), and under fair flush ticks and completing sends a live
\* transaction that has failed and whose backoff has elapsed is eventually
\* sent again.
C17_RetriedUntilDelivered ==
    /\ [][\A t \in Ids :
            (t \in SeqToSet(transactions) /\ t \notin SeqToSet(transactions'))
                => (last'.op = "finish" /\ last'.tr = t)]_vars
    /\ \A t \in Ids :
           (/\ t \in SeqToSet(transactions)
            /\ error_count[t] > 0
            /\ next_flush[t] < clock)
             ~> (t \in SeqToSet(inflight) \/ t \notin SeqToSet(transactions))

NoDuplicates(s) == \A i, j \in 1..Len(s) : s[i] = s[j] => i = j

\* C19: whenever a send is outstanding the flush cursor is non-absent; and
\* whenever the cursor is non-absent its remaining list is duplicate-free,
\* holds only live transactions and does not hold the transaction being sent.
C19_CursorWellFormed ==
    /\ inflight # <<>> => trs_to_flush.set
    /\ trs_to_flush.set =>
          /\ NoDuplicates(trs_to_flush.list)
          /\ SeqToSet(trs_to_flush.list) \subseteq Live
          /\ SeqToSet(trs_to_flush.list) \cap SeqToSet(inflight) = {}

\* C19 witness: a delivery has finished, the chain has sent the next target
\* and a further target is still waiting in the cursor's list.
C19_Witness ==
    /\ last.op = "finish"
    /\ inflight # <<>>
    /\ trs_to_flush.set
    /\ trs_to_flush.list # <<>>

\* C20 as stated: a flush chain sends exactly the snapshot taken when it
\* began: nothing outside the snapshot is sent in the chain, nothing is sent
\* twice, and once no send of the chain is outstanding any more every
\* transaction of the snapshot has been sent.
C20_ChainSendsSnapshot ==
    /\ NoDuplicates(chain.log)
    /\ SeqToSet(chain.log) \subseteq SeqToSet(chain.snap)
    /\ inflight = <<>> => SeqToSet(chain.log) = SeqToSet(chain.snap)

====
